---------------------------- MODULE Spec2Model ----------------------------
(***************************************************************************)
(* A model of the two trace-extraction commands of s2e-env:                *)
(*   s2e_env/commands/extract_testcase.py  (test cases of a forked trace)  *)
(*   s2e_env/commands/latency_trace.py     (fixed-width latency records)   *)
(* Byte strings are sequences of numbers 0..255, text keys are sequences   *)
(* of character codes, a call's outcome is either Return(x) or Raise(e).   *)
(***************************************************************************)
EXTENDS Integers, Sequences, FiniteSets, TLC

VARIABLES
    value,          \* byte_array_to_int: the argument `value`
    value_int,      \* byte_array_to_int: the outcome of the call
    command,        \* which Command.handle this run executes
    options,        \* handle: what the file system answers for indir/outdir
    execution_tree, \* extract_testcase: what parse_execution_tree returns
    latency_file,   \* latency_trace: the bytes of LatencyTracer.dat
    pc,             \* "start", "returned" or "raised"
    raised,         \* the exception that ended handle, or "none"
    log,            \* the logger calls made, in order
    written,        \* the files opened for writing, in order, with content
    test_cases,     \* extract_testcase: TestCasesInTrace.test_cases
    records,        \* latency_trace: LatencyRecords.records
    unsorted,       \* handle: the outcome of building the collection, before sort()
    inv             \* concurrent runs: each invocation's own state

vars == <<value, value_int, command, options, execution_tree, latency_file,
          pc, raised, log, written, test_cases, records, unsorted, inv>>

(***************************************************************************)
(* Outcomes of a call.                                                     *)
(***************************************************************************)
Return(x) == [kind |-> "return", ret |-> x]
Raise(e) == [kind |-> "raise", exc |-> e]

(***************************************************************************)
(* Bounds of the model.                                                    *)
(***************************************************************************)
\* longest argument of byte_array_to_int explored on its own
MaxLen == 9

\* the byte values the explored buffers are made of
ByteVals == {0, 128, 255}

\* all sequences over S of length at most n
SeqsUpTo(S, n) == UNION {[1..k -> S] : k \in 0..n}

(***************************************************************************)
(* struct.unpack('<' + struct_format, v): standard sizes, little-endian.   *)
(***************************************************************************)
\* struct.calcsize('<i') and struct.calcsize('<l'): with '<' both the int
\* and the long format are the standard 4 bytes wide
calcsize(struct_format) ==
    CASE struct_format = "i" -> 4
      [] struct_format = "l" -> 4

\* the signed 32-bit little-endian value of the 4 bytes v; the top byte is
\* taken signed so that no intermediate leaves the 32-bit range
int32_le(v) ==
    v[1] + v[2] * 256 + v[3] * 65536
    + (IF v[4] >= 128 THEN v[4] - 256 ELSE v[4]) * 16777216

struct_unpack(struct_format, v) ==
    IF Len(v) # calcsize(struct_format)
    THEN Raise("struct.error")
    ELSE Return(int32_le(v))

\* byte_array_to_int with the padding put in front of the bytes
byte_array_to_int_padded_in_front(val) ==
    LET l == Len(val) IN
    IF l > 8 THEN Return(0)
    ELSE LET padding == IF l <= 4 THEN 4 - l ELSE 8 - l
             struct_format == IF l <= 4 THEN "i" ELSE "l"
             v == [i \in 1..padding |-> 0] \o val
         IN struct_unpack(struct_format, v)

byte_array_to_int(val) ==
    LET l == Len(val) IN
    IF l > 8 THEN Return(0)
    ELSE LET padding == IF l <= 4 THEN 4 - l ELSE 8 - l
             struct_format == IF l <= 4 THEN "i" ELSE "l"
             v == val \o [i \in 1..padding |-> 0]
         IN struct_unpack(struct_format, v)

(***************************************************************************)
(* Python's list.sort(): a stable sort that only ever asks x < y.  The     *)
(* classes of both commands are old-style and define __gt__ alone, so      *)
(* x < y is answered by the reflected y.__gt__(x).                         *)
(***************************************************************************)
\* A comparison is handed over as gt[i, j]: whether xs[i] > xs[j].
\* insort that puts x before the elements it is equal to
insort_before_equal(sorted, x, gt) ==
    LET later == {i \in 1..Len(sorted) : ~gt[x, sorted[i]]}
        p == IF later = {} THEN Len(sorted) + 1
             ELSE CHOOSE i \in later : \A j \in later : i <= j
    IN SubSeq(sorted, 1, p - 1) \o <<x>> \o SubSeq(sorted, p, Len(sorted))

\* the list `sorted` of positions with position x put before the first
\* position whose element x's element is less than
insort(sorted, x, gt) ==
    LET later == {i \in 1..Len(sorted) : gt[sorted[i], x]}
        p == IF later = {} THEN Len(sorted) + 1
             ELSE CHOOSE i \in later : \A j \in later : i <= j
    IN SubSeq(sorted, 1, p - 1) \o <<x>> \o SubSeq(sorted, p, Len(sorted))

\* the positions of xs in sorted order
sort_order(n, gt) ==
    LET upto[i \in 0..n] == IF i = 0 THEN <<>> ELSE insort(upto[i - 1], i, gt)
    IN upto[n]

list_sort(xs, gt) ==
    LET order == sort_order(Len(xs), gt)
    IN [i \in 1..Len(xs) |-> xs[order[i]]]

(***************************************************************************)
(* Text: a str is the sequence of its character codes.                     *)
(***************************************************************************)
\* Python's a > b on two str: the first differing character decides, and a
\* proper prefix is the smaller
str_gt(a, b) ==
    \E i \in 1..Len(a) :
        /\ \A j \in 1..(i - 1) : j <= Len(b) /\ a[j] = b[j]
        /\ (i > Len(b) \/ a[i] > b[i])

\* string.printable: digits, letters, punctuation and whitespace
printable == (32..126) \cup (9..13)

\* value.encode('base64').strip(): the sextets of the bytes, three bytes to
\* four sextets, 64 standing for the '=' padding
base64(val) ==
    LET n == Len(val)
        at(i) == IF i <= n THEN val[i] ELSE 0
        group(g) ==
            LET b1 == at(3 * g - 2)
                b2 == at(3 * g - 1)
                b3 == at(3 * g)
            IN <<b1 \div 4,
                 (b1 % 4) * 16 + b2 \div 16,
                 IF 3 * g - 1 > n THEN 64 ELSE (b2 % 16) * 4 + b3 \div 64,
                 IF 3 * g > n THEN 64 ELSE b3 % 64>>
        groups == (n + 2) \div 3
    IN [k \in 1..(4 * groups) |-> group((k + 3) \div 4)[((k - 1) % 4) + 1]]

\* ','.join('0x' + x.encode('hex') for x in value): one token per byte,
\* each token the two hex digits of the byte
value_hex(val) == [i \in 1..Len(val) |-> <<val[i] \div 16, val[i] % 16>>]

\* ''.join(c if c in string.printable else '.' for c in value)
value_printable(val) ==
    [i \in 1..Len(val) |-> IF val[i] \in printable THEN val[i] ELSE 46]

(***************************************************************************)
(* extract_testcase.py: the data model.                                    *)
(***************************************************************************)
\* TestCaseKeyValue.__init__
TestCaseKeyValue(key, val) ==
    LET i == byte_array_to_int(val) IN
    IF i.kind = "raise" THEN i
    ELSE Return([key |-> key,
                 num_bytes |-> Len(val),
                 value_bytes |-> base64(val),
                 value_int |-> i.ret,
                 value_hex |-> value_hex(val),
                 value_printable |-> value_printable(val)])

\* TestCaseKeyValue.__gt__
KeyValue_gt(kv, kv2) == str_gt(kv.key, kv2.key)

\* TestCaseInTrace.__init__
TestCaseInTrace(state_id) == [state_id |-> state_id, key_values |-> <<>>]

\* TestCaseInTrace.add_key_value
add_key_value(test_case, key_value) ==
    [test_case EXCEPT !.key_values = Append(@, key_value)]

\* TestCaseInTrace.__gt__
TestCase_gt(tc, tc2) == tc.state_id > tc2.state_id

\* TestCasesInTrace.add_test_case
add_test_case(tcs, test_case) == Append(tcs, test_case)

\* TestCasesInTrace.sort
TestCases_sort(tcs) ==
    LET sorted_kvs(kvs) ==
            list_sort(kvs, [i, j \in 1..Len(kvs) |-> KeyValue_gt(kvs[i], kvs[j])])
        each == [i \in 1..Len(tcs) |->
                    [tcs[i] EXCEPT !.key_values = sorted_kvs(@)]]
    IN list_sort(each, [i, j \in 1..Len(each) |-> TestCase_gt(each[i], each[j])])

\* TestCaseInTrace.make_json_dict, with TestCaseKeyValue.make_json_dict
make_json_dict(tc) == [state_id |-> tc.state_id, key_values |-> tc.key_values]

(***************************************************************************)
(* extract_testcase.py: the walk of the trace tree.  A node is a           *)
(* (header, item) pair: type is header.type, items are item.items of a     *)
(* TRACE_TESTCASE, children is item.children of a TRACE_FORK in the order  *)
(* iteritems() yields it.                                                  *)
(***************************************************************************)
RECURSIVE add_items(_, _, _)
\* the loop `for p in item.items` from its i-th pair on
add_items(test_case, items, i) ==
    IF i > Len(items) THEN Return(test_case)
    ELSE LET key_value == TestCaseKeyValue(items[i].key, items[i].value) IN
         IF key_value.kind = "raise" THEN key_value
         ELSE add_items(add_key_value(test_case, key_value.ret), items, i + 1)

RECURSIVE extract_test_case(_, _, _)
RECURSIVE extract_trace(_, _, _, _)
RECURSIVE extract_children(_, _, _)

\* Command.extract_test_case
extract_test_case(tcs, state_id, node) ==
    IF node.type = "TRACE_TESTCASE"
    THEN LET test_case == add_items(TestCaseInTrace(state_id), node.items, 1) IN
         IF test_case.kind = "raise" THEN test_case
         ELSE Return(add_test_case(tcs, test_case.ret))
    ELSE IF node.type = "TRACE_FORK"
    THEN extract_children(tcs, node.children, 1)
    ELSE Return(tcs)

\* the loop `for state_id, trace in item.children.iteritems()` from the i-th
\* child on
extract_children(tcs, children, i) ==
    IF i > Len(children) THEN Return(tcs)
    ELSE LET done == extract_trace(tcs, children[i].state_id, children[i].trace, 1) IN
         IF done.kind = "raise" THEN done
         ELSE extract_children(done.ret, children, i + 1)

\* the loop over the (header, item) pairs of one trace, each walked with
\* the same state_id, from the i-th pair on
extract_trace(tcs, state_id, trace, i) ==
    IF i > Len(trace) THEN Return(tcs)
    ELSE LET done == extract_test_case(tcs, state_id, trace[i]) IN
         IF done.kind = "raise" THEN done
         ELSE extract_trace(done.ret, state_id, trace, i + 1)

(***************************************************************************)
(* latency_trace.py: the data model.                                       *)
(***************************************************************************)
\* struct.calcsize('=iQQQdQQd'): 4 + 3 * 8 + 8 + 2 * 8 + 8
STRUCT_LEN == 60

\* A Q (uint64) or d (double) field is kept as its 8 bytes, low byte first.
\* STRUCT_UNPACK(data) handed to LatencyRecord.__init__
LatencyRecord(data) ==
    [state_id |-> int32_le(SubSeq(data, 1, 4)),
     address |-> SubSeq(data, 5, 12),
     ret_address |-> SubSeq(data, 13, 20),
     caller_address |-> SubSeq(data, 21, 28),
     execution_time |-> SubSeq(data, 29, 36),
     activity_id |-> SubSeq(data, 37, 44),
     parent_id |-> SubSeq(data, 45, 52),
     clock_begin |-> SubSeq(data, 53, 60)]

\* LatencyRecord.__gt__
LatencyRecord_gt(r, r2) == r.state_id > r2.state_id

\* LatencyRecords.sort
LatencyRecords_sort(rs) ==
    list_sort(rs, [i, j \in 1..Len(rs) |-> LatencyRecord_gt(rs[i], rs[j])])

\* hex(x) of a Q field: its hex digits, the highest first, without leading
\* zeros
hex(q) ==
    LET nibbles == [k \in 1..16 |->
                       IF k % 2 = 1 THEN q[8 - (k \div 2)] \div 16
                       ELSE q[9 - (k \div 2)] % 16]
        set == {k \in 1..16 : nibbles[k] # 0}
    IN IF set = {} THEN <<0>>
       ELSE SubSeq(nibbles, CHOOSE k \in set : \A m \in set : k <= m, 16)

\* LatencyRecord.csv_header
csv_header ==
    [row |-> "header",
     cols |-> <<"state_id", "address", "return_address", "caller_address",
                "execution_time", "activity_id", "parent_id", "clock_begin">>]

\* LatencyRecord.csv_entry
csv_entry(r) ==
    [row |-> "entry",
     state_id |-> r.state_id,
     cols |-> <<hex(r.address), hex(r.ret_address), hex(r.caller_address),
                r.execution_time, r.activity_id, r.parent_id, r.clock_begin>>]

(***************************************************************************)
(* latency_trace.py: the reader.                                           *)
(***************************************************************************)
\* tf.read(STRUCT_LEN) at offset pos: up to STRUCT_LEN bytes, fewer only at
\* the end of the file
read(data, pos) ==
    SubSeq(data, pos + 1, IF pos + STRUCT_LEN <= Len(data) THEN pos + STRUCT_LEN ELSE Len(data))

RECURSIVE read_loop_keeps_partial(_, _, _)
\* the loop without the length test: a short last chunk is zero-filled and
\* decoded like a whole one
read_loop_keeps_partial(rs, data, pos) ==
    LET chunk == read(data, pos) IN
    IF chunk = <<>> THEN [records |-> rs, errors |-> <<>>]
    ELSE read_loop_keeps_partial(
             Append(rs, LatencyRecord(chunk \o [i \in 1..(STRUCT_LEN - Len(chunk)) |-> 0])),
             data, pos + Len(chunk))

RECURSIVE read_loop(_, _, _)
\* the `while True` loop with the file position at pos: the records and
\* the logger.error calls it ends with
read_loop(rs, data, pos) ==
    LET chunk == read(data, pos) IN
    IF chunk = <<>> THEN [records |-> rs, errors |-> <<>>]
    ELSE IF Len(chunk) # STRUCT_LEN
    THEN [records |-> rs,
          errors |-> <<[level |-> "error", msg |-> "Not enough bytes to deserialize",
                        n |-> Len(chunk)]>>]
    ELSE read_loop(Append(rs, LatencyRecord(chunk)), data, pos + Len(chunk))

\* Command.parse_latency_trace_file
parse_latency_trace_file(data) == read_loop(<<>>, data, 0)

(***************************************************************************)
(* The two Command.handle methods.  A run's outcome is                     *)
(*   [raised, log, written, unsorted, sorted]:                             *)
(* the exception that ended it, the logger calls, the files opened for     *)
(* writing, the collection as built and the collection after sort().       *)
(***************************************************************************)
NoException == [exc |-> "none", msg |-> ""]
CommandError(msg) == [exc |-> "CommandError", msg |-> msg]
success(msg, n) == [level |-> "success", msg |-> msg, n |-> n]
Unset == [kind |-> "unset"]

\* the decimal digits of n, the highest first
RECURSIVE decimal(_)
decimal(n) == IF n < 10 THEN <<n>> ELSE Append(decimal(n \div 10), n % 10)

\* '%06d' % n: the decimal digits, zero-padded on the left to 6 of them
format_06d(n) ==
    LET d == decimal(n) IN
    IF Len(d) >= 6 THEN d ELSE [i \in 1..(6 - Len(d)) |-> 0] \o d

\* 'testcase-%06d.json' % (testid)
test_case_file_name(testid) ==
    [stem |-> "testcase-", digits |-> format_06d(testid), ext |-> ".json"]

\* LATENCY_TRACE_CSV
LATENCY_TRACE_CSV == [stem |-> "LatencyTracer", digits |-> <<>>, ext |-> ".csv"]

\* the file written for the test case met when the counter is testid
write_test_case(outdir, testid, test_case) ==
    [dir |-> outdir, name |-> test_case_file_name(testid),
     content |-> make_json_dict(test_case)]

\* the loop without `testid += 1`
write_test_cases_same_testid(outdir, tcs) ==
    [i \in 1..Len(tcs) |-> write_test_case(outdir, 0, tcs[i])]

\* the loop `for test_case in test_cases` of extract_testcase's handle,
\* testid starting at 0 and stepping by one
write_test_cases(outdir, tcs) ==
    [i \in 1..Len(tcs) |-> write_test_case(outdir, i - 1, tcs[i])]

\* the header written before the loop, whether or not a record follows
csv_rows_header_always(rs) ==
    <<csv_header>> \o [i \in 1..Len(rs) |-> csv_entry(rs[i])]

\* the rows the csv writer is handed: the header before the first record
csv_rows(rs) ==
    LET rows[i \in 0..Len(rs)] ==
            IF i = 0 THEN <<>>
            ELSE (IF i = 1 THEN Append(rows[i - 1], csv_header) ELSE rows[i - 1])
                 \o <<csv_entry(rs[i])>>
    IN rows[Len(rs)]

\* the directory the output goes to: the results directory unless --outdir
\* is given
outdir_of(opts) == IF opts.outdir = "None" THEN "indir" ELSE "outdir"

\* os.path.isdir(options['outdir']) is asked without looking
outdir_isdir_unchecked(opts) == TRUE

\* os.path.isdir(options['outdir']), asked when --outdir is given
outdir_isdir(opts) == opts.outdir # "missing"

\* `not execution_tree` never holds
tree_is_empty_never(tree) == FALSE

\* `not execution_tree`
tree_is_empty(tree) == tree = <<>>

\* Command.handle of extract_testcase.py
handle_testcase(opts, tree) ==
    LET none == [raised |-> NoException, log |-> <<>>, written |-> <<>>,
                 unsorted |-> Unset, sorted |-> <<>>]
    IN
    IF ~opts.indir
    THEN [none EXCEPT !.raised = CommandError("Results directory does not exist")]
    ELSE IF tree_is_empty(tree)
    THEN [none EXCEPT !.raised = CommandError("The execution trace is empty")]
    ELSE LET walk == extract_trace(<<>>, 0, tree, 1) IN
         IF walk.kind = "raise"
         THEN [none EXCEPT !.raised = [exc |-> walk.exc, msg |-> ""],
                           !.unsorted = walk]
         ELSE LET sorted == TestCases_sort(walk.ret)
                  extracted == <<success("Extracted test cases", Len(sorted))>>
                  sofar == [none EXCEPT !.unsorted = walk, !.sorted = sorted,
                                        !.log = extracted]
              IN IF opts.outdir # "None" /\ ~outdir_isdir(opts)
                 THEN [sofar EXCEPT !.raised = CommandError("Output directory does not exist")]
                 ELSE [sofar EXCEPT
                          !.written = write_test_cases(outdir_of(opts), sorted),
                          !.log = Append(extracted,
                                         success("Written test cases", Len(sorted)))]

\* Command.handle of latency_trace.py
handle_latency(opts, file) ==
    LET none == [raised |-> NoException, log |-> <<>>, written |-> <<>>,
                 unsorted |-> Unset, sorted |-> <<>>]
    IN
    IF ~opts.indir
    THEN [none EXCEPT !.raised = CommandError("Results directory does not exist")]
    ELSE IF ~file.isfile
    THEN [none EXCEPT !.raised = CommandError("The latency trace file does not exist")]
    ELSE LET parsed == parse_latency_trace_file(file.data)
             sorted == LatencyRecords_sort(parsed.records)
             parsed_log == Append(parsed.errors,
                                  success("Parsed latency trace records", Len(sorted)))
             sofar == [none EXCEPT !.unsorted = Return(parsed.records),
                                   !.sorted = sorted, !.log = parsed_log]
         IN IF opts.outdir # "None" /\ ~outdir_isdir(opts)
            THEN [sofar EXCEPT !.raised = CommandError("Output directory does not exist")]
            ELSE [sofar EXCEPT
                     !.written = <<[dir |-> outdir_of(opts), name |-> LATENCY_TRACE_CSV,
                                    content |-> csv_rows(sorted)]>>,
                     !.log = Append(parsed_log,
                                    success("Written latency trace records", Len(sorted)))]

(***************************************************************************)
(* The specification of byte_array_to_int on its own.                      *)
(***************************************************************************)
NothingDone ==
    /\ raised = NoException
    /\ log = <<>>
    /\ written = <<>>
    /\ test_cases = <<>>
    /\ records = <<>>
    /\ unsorted = Unset

Idle ==
    /\ command = "none"
    /\ options = [indir |-> FALSE, outdir |-> "None"]
    /\ execution_tree = <<>>
    /\ latency_file = [isfile |-> FALSE, data |-> <<>>]
    /\ NothingDone
    /\ inv = <<>>

ToIntInit ==
    /\ \E l \in 0..MaxLen : value \in [1..l -> ByteVals]
    /\ value_int = Unset
    /\ pc = "start"
    /\ Idle

ToIntCall ==
    /\ pc = "start"
    /\ value_int' = byte_array_to_int(value)
    /\ pc' = IF value_int'.kind = "raise" THEN "raised" ELSE "returned"
    /\ UNCHANGED <<value, command, options, execution_tree, latency_file,
                   raised, log, written, test_cases, records, unsorted, inv>>

ToIntNext == ToIntCall

SpecToInt == ToIntInit /\ [][ToIntNext]_vars

(***************************************************************************)
(* The inputs of the two commands.                                         *)
(***************************************************************************)
\* the most nodes (TRACE_TESTCASE, TRACE_FORK or other) of an explored tree
MaxNodes == 3

\* the most whole records of an explored latency file
MaxRecords == 3

\* the state ids the forks of the explored trees hand to their children
StateIds == {0, 1, 2}

\* the keys "a", "ab" and "b"
KeyA == <<97>>
KeyAB == <<97, 98>>
KeyB == <<98>>

\* the item lists of the explored TRACE_TESTCASE nodes: keys out of order
\* with a 4-byte value; equal keys with different values, an empty and a
\* 9-byte value; a 5-byte value
ItemLists ==
    {<<[key |-> KeyB, value |-> <<1, 0, 0, 0>>], [key |-> KeyA, value |-> <<255>>]>>,
     <<[key |-> KeyA, value |-> <<2>>], [key |-> KeyAB, value |-> <<>>],
       [key |-> KeyA, value |-> <<1, 2, 3, 4, 5, 6, 7, 8, 9>>]>>,
     <<[key |-> KeyA, value |-> <<1, 0, 0, 0, 0>>]>>}

TestCaseNodes == {[type |-> "TRACE_TESTCASE", items |-> il] : il \in ItemLists}

\* a node of any other header type, which the walk passes over
OtherNode == [type |-> "TRACE_OTHER"]

RECURSIVE TracesOfSize(_)
RECURSIVE NodesOfSize(_)
RECURSIVE ChildrenOfSize(_, _)

\* the traces (sequences of nodes) of exactly n nodes in all
TracesOfSize(n) ==
    IF n = 0 THEN {<<>>}
    ELSE UNION {{<<h>> \o t : h \in NodesOfSize(k), t \in TracesOfSize(n - k)} :
                k \in 1..n}

\* the trees of exactly n nodes: a leaf, or a fork over n - 1 nodes
NodesOfSize(n) ==
    (IF n = 1 THEN TestCaseNodes \cup {OtherNode} ELSE {})
    \cup {[type |-> "TRACE_FORK", children |-> c] : c \in ChildrenOfSize(n - 1, StateIds)}

\* the children of a fork in iteration order: distinct state ids out of
\* free, each with a non-empty trace, m nodes in all
ChildrenOfSize(m, free) ==
    IF m = 0 THEN {<<>>}
    ELSE UNION {{<<[state_id |-> sid, trace |-> t]>> \o rest :
                    t \in TracesOfSize(k), rest \in ChildrenOfSize(m - k, free \ {sid})} :
                sid \in free, k \in 1..m}

Trees == UNION {TracesOfSize(n) : n \in 0..MaxNodes}

\* the state ids of the explored latency records, as their 4 bytes
RecordStateIds == {<<0, 0, 0, 0>>, <<1, 0, 0, 0>>, <<255, 255, 255, 255>>}

\* the explored 60-byte records: a state id, an address that tells two
\* records of one state apart, and the other fields fixed
RecordChunks ==
    {sid \o <<a, 0, 0, 0, 0, 0, 0, 0>> \o [i \in 1..48 |-> (i % 8) * 16]:
        sid \in RecordStateIds, a \in {16, 171}}

\* the lengths of the explored incomplete last records
TailLens == {0, 1, 4, 30, 59}

LatencyFiles ==
    {[isfile |-> TRUE, data |-> body \o SubSeq(<<7>> \o [i \in 1..58 |-> i], 1, t)] :
        body \in {IF cs = <<>> THEN <<>> ELSE
                  [i \in 1..(Len(cs) * STRUCT_LEN) |->
                      cs[((i - 1) \div STRUCT_LEN) + 1][((i - 1) % STRUCT_LEN) + 1]] :
                  cs \in SeqsUpTo(RecordChunks, MaxRecords)},
        t \in TailLens}

NoLatencyFile == [isfile |-> FALSE, data |-> <<>>]

(***************************************************************************)
(* The specification of one run of either command.                         *)
(***************************************************************************)
Init ==
    /\ command \in {"extract_testcase", "latency_trace"}
    /\ options \in [indir : BOOLEAN, outdir : {"None", "isdir", "missing"}]
    /\ execution_tree \in
           (IF command = "extract_testcase" /\ options.indir THEN Trees ELSE {<<>>})
    /\ latency_file \in
           (IF command = "latency_trace" /\ options.indir
            THEN LatencyFiles \cup {NoLatencyFile} ELSE {NoLatencyFile})
    /\ pc = "start"
    /\ value = <<>>
    /\ value_int = Unset
    /\ NothingDone
    /\ inv = <<>>

\* what handle leaves behind
Finish(run) ==
    /\ pc' = IF run.raised = NoException THEN "returned" ELSE "raised"
    /\ raised' = run.raised
    /\ log' = run.log
    /\ written' = run.written
    /\ unsorted' = run.unsorted
    /\ UNCHANGED <<value, value_int, command, options, execution_tree,
                   latency_file, inv>>

ExtractTestcase ==
    /\ pc = "start"
    /\ command = "extract_testcase"
    /\ LET run == handle_testcase(options, execution_tree) IN
       /\ Finish(run)
       /\ test_cases' = run.sorted
       /\ UNCHANGED records

LatencyTrace ==
    /\ pc = "start"
    /\ command = "latency_trace"
    /\ LET run == handle_latency(options, latency_file) IN
       /\ Finish(run)
       /\ records' = run.sorted
       /\ UNCHANGED test_cases

Next == ExtractTestcase \/ LatencyTrace

Spec == Init /\ [][Next]_vars

(***************************************************************************)
(* The specification of several invocations run at once with the same      *)
(* --outdir.  Each invocation is a process of its own: what it computes    *)
(* is its own, and only its file writes meet the others'.  An invocation   *)
(* runs handle up to its first open(), then opens and writes its files one *)
(* at a time, in the order of handle's loop.                               *)
(***************************************************************************)
\* the most root nodes of a tree of a concurrent invocation
MaxConcNodes == 2

Invocations == {1, 2}

\* a test case node, alone or under a fork
ConcNodes ==
    LET leaf == [type |-> "TRACE_TESTCASE",
                 items |-> <<[key |-> KeyA, value |-> <<1, 0, 0, 0>>]>>]
    IN {leaf,
        [type |-> "TRACE_FORK", children |-> <<[state_id |-> 1, trace |-> <<leaf>>]>>]}

ConcInputs ==
    {[command |-> "extract_testcase", tree |-> t, file |-> NoLatencyFile] :
        t \in SeqsUpTo(ConcNodes, MaxConcNodes)}
    \cup
    {[command |-> "latency_trace", tree |-> <<>>, file |-> [isfile |-> TRUE, data |-> d]] :
        d \in {<<>>} \cup RecordChunks}

ConcOptions == [indir |-> TRUE, outdir |-> "isdir"]

ConcInit ==
    /\ inv \in [Invocations ->
                  {[command |-> in.command, tree |-> in.tree, file |-> in.file,
                    pc |-> "start", todo |-> <<>>, raised |-> NoException] :
                   in \in ConcInputs}]
    /\ command = "concurrent"
    /\ options = ConcOptions
    /\ execution_tree = <<>>
    /\ latency_file = NoLatencyFile
    /\ pc = "start"
    /\ value = <<>>
    /\ value_int = Unset
    /\ NothingDone

ConcUnchanged ==
    UNCHANGED <<value, value_int, command, options, execution_tree, latency_file,
                pc, raised, log, test_cases, records, unsorted>>

\* invocation i runs handle up to its first file
Begin(i) ==
    /\ inv[i].pc = "start"
    /\ LET run == IF inv[i].command = "extract_testcase"
                  THEN handle_testcase(options, inv[i].tree)
                  ELSE handle_latency(options, inv[i].file)
       IN inv' = [inv EXCEPT ![i].pc = IF run.raised = NoException
                                        THEN "writing" ELSE "raised",
                             ![i].raised = run.raised,
                             ![i].todo = run.written]
    /\ UNCHANGED written
    /\ ConcUnchanged

\* invocation i opens and writes its next file
WriteFile(i) ==
    /\ inv[i].pc = "writing"
    /\ inv[i].todo # <<>>
    /\ written' = Append(written, [by |-> i, dir |-> Head(inv[i].todo).dir,
                                   name |-> Head(inv[i].todo).name,
                                   content |-> Head(inv[i].todo).content])
    /\ inv' = [inv EXCEPT ![i].todo = Tail(@)]
    /\ ConcUnchanged

\* invocation i has written all its files and returns
ReturnFrom(i) ==
    /\ inv[i].pc = "writing"
    /\ inv[i].todo = <<>>
    /\ inv' = [inv EXCEPT ![i].pc = "returned"]
    /\ UNCHANGED written
    /\ ConcUnchanged

ConcNext == \E i \in Invocations : Begin(i) \/ WriteFile(i) \/ ReturnFrom(i)

SpecConc == ConcInit /\ [][ConcNext]_vars

(***************************************************************************)
(* Properties of byte_array_to_int (in SpecToInt).                        *)
(***************************************************************************)
\* val followed by zero bytes up to n bytes
ZeroPadded(val, n) == val \o [i \in 1..(n - Len(val)) |-> 0]

RECURSIVE ShiftRight8(_, _)
\* x shifted right by k bytes, the sign kept
ShiftRight8(x, k) == IF k = 0 THEN x ELSE ShiftRight8(x, k - 1) \div 256

\* byte i (1 the lowest) of the two's complement form of x
ByteOf(x, i) == ShiftRight8(x, i - 1) % 256

\* x is the signed little-endian reading of the n bytes v
IsSignedLE(x, v, n) ==
    /\ \A i \in 1..n : ByteOf(x, i) = v[i]
    /\ ShiftRight8(x, n) = (IF v[n] >= 128 THEN -1 ELSE 0)

\* C9: a buffer of at most 4 bytes (the empty one included) is read as the
\* signed 32-bit little-endian value of its bytes zero-padded on the right
\* to 4 bytes, and a buffer of more than 8 bytes is read as 0 whatever it
\* holds.
C9_ToIntNarrowOrTooWide ==
    (pc # "start" /\ command = "none") =>
        /\ Len(value) <= 4 =>
               /\ value_int.kind = "return"
               /\ IsSignedLE(value_int.ret, ZeroPadded(value, 4), 4)
        /\ Len(value) > 8 => value_int = Return(0)

\* a 4-byte buffer with the sign bit set has been read as a negative number
C9_Witness ==
    /\ pc = "returned"
    /\ Len(value) = 4
    /\ value[4] >= 128
    /\ value[1] # 0
    /\ value_int.kind = "return"
    /\ value_int.ret < 0

\* C4: a buffer of 5 to 8 bytes is read, without failing, as the signed
\* 64-bit little-endian value of its bytes zero-padded on the right to 8
\* bytes.
C4_ToIntWide ==
    (pc # "start" /\ command = "none" /\ Len(value) > 4 /\ Len(value) <= 8) =>
        /\ value_int.kind = "return"
        /\ IsSignedLE(value_int.ret, ZeroPadded(value, 8), 8)

(***************************************************************************)
(* Properties of the latency command (in Spec).                           *)
(***************************************************************************)
\* the latency command got as far as reading the trace file
LatencyParsed ==
    /\ command = "latency_trace"
    /\ pc # "start"
    /\ options.indir
    /\ latency_file.isfile

\* the i-th run of STRUCT_LEN bytes of the file
ChunkOfFile(i) ==
    SubSeq(latency_file.data, (i - 1) * STRUCT_LEN + 1, i * STRUCT_LEN)

\* the STRUCT_LEN bytes a record stands for
BytesOfRecord(r) ==
    [j \in 1..4 |-> ByteOf(r.state_id, j)]
    \o r.address \o r.ret_address \o r.caller_address \o r.execution_time
    \o r.activity_id \o r.parent_id \o r.clock_begin

\* the logger.error calls among the logger calls
ErrorsLogged == {i \in 1..Len(log) : log[i].level = "error"}

\* the rows of the csv file that are record rows
EntryRows(rows) == {i \in 1..Len(rows) : rows[i].row = "entry"}

\* C2: a latency file of n bytes yields exactly floor(n / STRUCT_LEN)
\* records, the whole chunks of the file in file order, and never a record
\* of a partial chunk; a truncation is reported exactly when n is not a
\* multiple of STRUCT_LEN (an empty file reports none); the records read
\* before a truncation are kept and a run that goes on to write the csv
\* file writes one row for each of them.
C2_WholeRecordsOnly ==
    LatencyParsed =>
        LET n == Len(latency_file.data)
            k == n \div STRUCT_LEN
        IN /\ unsorted.kind = "return"
           /\ Len(unsorted.ret) = k
           /\ \A i \in 1..k : BytesOfRecord(unsorted.ret[i]) = ChunkOfFile(i)
           /\ Cardinality(ErrorsLogged) = (IF n % STRUCT_LEN # 0 THEN 1 ELSE 0)
           /\ Len(records) = k
           /\ pc = "returned" =>
                  /\ Len(written) = 1
                  /\ Cardinality(EntryRows(written[1].content)) = k

\* a file of two and a half records was read as two records, the
\* truncation was reported, and the csv file holds the two rows
C2_Witness ==
    /\ LatencyParsed
    /\ Len(latency_file.data) = 2 * STRUCT_LEN + 30
    /\ Len(unsorted.ret) = 2
    /\ ErrorsLogged # {}
    /\ pc = "returned"
    /\ Cardinality(EntryRows(written[1].content)) = 2

\* C3: the csv file holds the header row exactly once, as its first row,
\* if and only if at least one record was decoded, and after it exactly
\* one row per decoded record in sorted order; with no record the file is
\* created and left empty.
C3_HeaderOnceIffRecords ==
    (command = "latency_trace" /\ pc = "returned") =>
        /\ Len(written) = 1
        /\ written[1].name = LATENCY_TRACE_CSV
        /\ LET rows == written[1].content
               headers == {i \in 1..Len(rows) : rows[i].row = "header"}
           IN /\ headers = (IF Len(unsorted.ret) > 0 THEN {1} ELSE {})
              /\ Len(rows) = Len(unsorted.ret) + Cardinality(headers)
              /\ \A i \in headers :
                     rows[i].cols = <<"state_id", "address", "return_address",
                                      "caller_address", "execution_time",
                                      "activity_id", "parent_id", "clock_begin">>
              /\ \A i \in 1..Len(records) :
                     /\ rows[i + 1].row = "entry"
                     /\ rows[i + 1].state_id = records[i].state_id
                     /\ rows[i + 1].cols[4] = records[i].execution_time
              /\ \A i, j \in EntryRows(rows) :
                     i < j => rows[i].state_id <= rows[j].state_id

\* a csv file was written for two records that were not in order in the
\* trace file
C3_Witness ==
    /\ command = "latency_trace"
    /\ pc = "returned"
    /\ Len(unsorted.ret) = 2
    /\ unsorted.ret[1].state_id > unsorted.ret[2].state_id
    /\ Len(written[1].content) = 3
    /\ written[1].content[1].row = "header"

(***************************************************************************)
(* Properties of the two sort() methods (in Spec).                        *)
(***************************************************************************)
RECURSIVE TextLess(_, _)
\* text a comes before text b in the order of the character codes
TextLess(a, b) ==
    IF b = <<>> THEN FALSE
    ELSE IF a = <<>> THEN TRUE
    ELSE IF a[1] # b[1] THEN a[1] < b[1]
    ELSE TextLess(Tail(a), Tail(b))

\* the one-to-one maps of 1..n onto itself
OneToOneMaps(n) == {p \in [1..n -> 1..n] : \A i, j \in 1..n : p[i] = p[j] => i = j}

\* p arranges a list whose elements compare by less[i, j] in non-decreasing
\* order with equal elements left in their order
StableOrder(p, n, less) ==
    \A i, j \in 1..n :
        i < j => /\ ~less[p[j], p[i]]
                 /\ (~less[p[i], p[j]] => p[i] < p[j])

\* out is inp with its key/value entries stably sorted by key
KeyValuesStablySorted(out, inp) ==
    /\ Len(out) = Len(inp)
    /\ \E p \in OneToOneMaps(Len(inp)) :
           /\ \A i \in 1..Len(inp) : out[i] = inp[p[i]]
           /\ StableOrder(p, Len(inp),
                          [i, j \in 1..Len(inp) |-> TextLess(inp[i].key, inp[j].key)])

\* out is inp stably sorted by state_id, each test case with its key/value
\* entries stably sorted by key
TestCasesStablySorted(out, inp) ==
    /\ Len(out) = Len(inp)
    /\ \E p \in OneToOneMaps(Len(inp)) :
           /\ \A i \in 1..Len(inp) :
                  /\ out[i].state_id = inp[p[i]].state_id
                  /\ KeyValuesStablySorted(out[i].key_values, inp[p[i]].key_values)
           /\ StableOrder(p, Len(inp),
                          [i, j \in 1..Len(inp) |-> inp[i].state_id < inp[j].state_id])

\* out is inp stably sorted by state_id
RecordsStablySorted(out, inp) ==
    /\ Len(out) = Len(inp)
    /\ \E p \in OneToOneMaps(Len(inp)) :
           /\ \A i \in 1..Len(inp) : out[i] = inp[p[i]]
           /\ StableOrder(p, Len(inp),
                          [i, j \in 1..Len(inp) |-> inp[i].state_id < inp[j].state_id])

\* xs is in non-decreasing state_id order
ByStateId(xs) == \A i, j \in 1..Len(xs) : i < j => xs[i].state_id <= xs[j].state_id

\* kvs is in non-decreasing key order
ByKey(kvs) == \A i, j \in 1..Len(kvs) : i < j => ~TextLess(kvs[j].key, kvs[i].key)

\* C7: after TestCasesInTrace.sort() every test case's key_values are in
\* non-decreasing key order and the test cases in non-decreasing state_id
\* order; after LatencyRecords.sort() the records are in non-decreasing
\* state_id order; each sort is a stable permutation of what it was given
\* (equal sort keys keep their input order, nothing is added, dropped or
\* altered), so a collection that was already sorted is left as it was.
C7_SortsAreStable ==
    (pc # "start" /\ unsorted.kind = "return") =>
        /\ command = "extract_testcase" =>
               /\ ByStateId(test_cases)
               /\ \A i \in 1..Len(test_cases) : ByKey(test_cases[i].key_values)
               /\ TestCasesStablySorted(test_cases, unsorted.ret)
               /\ (/\ ByStateId(unsorted.ret)
                   /\ \A i \in 1..Len(unsorted.ret) : ByKey(unsorted.ret[i].key_values))
                  => test_cases = unsorted.ret
        /\ command = "latency_trace" =>
               /\ ByStateId(records)
               /\ RecordsStablySorted(records, unsorted.ret)
               /\ ByStateId(unsorted.ret) => records = unsorted.ret

\* two test cases were sorted into another order, and in one of them the
\* entries of two equal keys, met with another key between them, were
\* brought together in the order they were met
C7_Witness ==
    /\ command = "extract_testcase"
    /\ pc = "returned"
    /\ Len(test_cases) = 2
    /\ unsorted.ret[1].state_id > unsorted.ret[2].state_id
    /\ test_cases[1].state_id < test_cases[2].state_id
    /\ \E t \in 1..2 :
           LET kvs == test_cases[t].key_values IN
           /\ Len(kvs) = 3
           /\ kvs[1].key = kvs[2].key
           /\ kvs[1].value_int # kvs[2].value_int
           /\ kvs # unsorted.ret[3 - t].key_values

(***************************************************************************)
(* Properties of the test-case command (in Spec).                         *)
(***************************************************************************)
\* the number the digits ds write in base 10
RECURSIVE DecimalValue(_)
DecimalValue(ds) ==
    IF ds = <<>> THEN 0
    ELSE 10 * DecimalValue(SubSeq(ds, 1, Len(ds) - 1)) + ds[Len(ds)]

\* C8: a run of the test-case command that succeeds on n test cases writes
\* exactly n documents, the k-th test case in sorted order (k = 0..n-1) to
\* the file named by the 6-digit zero-padded index k; the indices run from
\* 0 without a gap, no two files share a name, and the index follows the
\* sorted order and not the state_id, so the test case with the smallest
\* state_id is written to testcase-000000.
C8_OneFilePerTestCaseInSortedOrder ==
    (command = "extract_testcase" /\ pc = "returned") =>
        /\ Len(written) = Len(test_cases)
        /\ Len(written) = Len(unsorted.ret)
        /\ \A k \in 1..Len(written) :
               /\ written[k].name.stem = "testcase-"
               /\ written[k].name.ext = ".json"
               /\ Len(written[k].name.digits) = 6
               /\ DecimalValue(written[k].name.digits) = k - 1
               /\ written[k].content.state_id = test_cases[k].state_id
               /\ written[k].content.key_values = test_cases[k].key_values
        /\ \A k, m \in 1..Len(written) :
               k # m => written[k].name # written[m].name
        /\ \A k \in 1..Len(written), i \in 1..Len(unsorted.ret) :
               (written[k].name.digits = <<0, 0, 0, 0, 0, 0>>)
                   => written[k].content.state_id <= unsorted.ret[i].state_id

\* two test cases met with the larger state_id first were written, the one
\* with the smaller state_id to testcase-000000
C8_Witness ==
    /\ command = "extract_testcase"
    /\ pc = "returned"
    /\ Len(written) = 2
    /\ unsorted.ret[1].state_id > unsorted.ret[2].state_id
    /\ written[1].name.digits = <<0, 0, 0, 0, 0, 0>>
    /\ written[1].content.state_id = unsorted.ret[2].state_id
    /\ written[2].name.digits = <<0, 0, 0, 0, 0, 1>>

\* the test-case command got as far as looking at the parsed trace
TraceParsed ==
    /\ command = "extract_testcase"
    /\ pc # "start"
    /\ options.indir

\* the logger.success calls among the logger calls
SuccessLogged == {i \in 1..Len(log) : log[i].level = "success"}

\* the walk of the trace found no test case
NoTestCaseFound ==
    \/ execution_tree = <<>>
    \/ unsorted = Return(<<>>)

\* C5 as stated: whenever the trace yields no test case (also when the
\* tree is not empty but holds no TRACE_TESTCASE node) handle ends in a
\* CommandError, reports no success and writes no file.
C5_NoTestCaseIsFatal ==
    (TraceParsed /\ NoTestCaseFound) =>
        /\ pc = "raised"
        /\ raised.exc = "CommandError"
        /\ SuccessLogged = {}
        /\ written = <<>>

\* C5 as amended: an empty parsed tree is fatal: handle raises the
\* CommandError "The execution trace is empty", reports no success and
\* writes no file.  A tree that is not empty but yields no test case is
\* not: handle reports "Extracted 0 test cases", writes no file, and
\* returns with "Written 0 test cases" unless the given output directory is
\* missing.
C5_EmptyTreeIsFatal ==
    TraceParsed =>
        /\ execution_tree = <<>> =>
               /\ pc = "raised"
               /\ raised = CommandError("The execution trace is empty")
               /\ SuccessLogged = {}
               /\ written = <<>>
        /\ (execution_tree # <<>> /\ unsorted = Return(<<>>)) =>
               /\ raised.msg # "The execution trace is empty"
               /\ log[1] = success("Extracted test cases", 0)
               /\ written = <<>>
               /\ options.outdir # "missing" =>
                      /\ pc = "returned"
                      /\ log = <<success("Extracted test cases", 0),
                                 success("Written test cases", 0)>>

\* the command was run on an empty parsed tree and ended in the error
C5_Witness ==
    /\ TraceParsed
    /\ execution_tree = <<>>
    /\ pc = "raised"
    /\ raised.msg = "The execution trace is empty"

(***************************************************************************)
(* Properties of both commands (in Spec).                                 *)
(***************************************************************************)
\* the configuration errors of the two commands
ConfigurationErrors ==
    {CommandError("Results directory does not exist"),
     CommandError("The latency trace file does not exist"),
     CommandError("Output directory does not exist")}

\* what the run was given makes one of the configuration checks fail
BadConfiguration ==
    \/ ~options.indir
    \/ command = "latency_trace" /\ ~latency_file.isfile
    \/ options.outdir = "missing"

\* C6: in both commands a configuration error (the input directory, the
\* latency trace file or a given output directory is missing) ends the run
\* with a CommandError before any output file is opened: a run that raised
\* a configuration error has written nothing, and a run given a bad
\* configuration never returns nor writes; it ends in the CommandError of
\* the first failing check it comes to (the walk of the trace, which comes
\* before the output directory check, may raise first).
C6_ConfigurationErrorWritesNothing ==
    (pc # "start") =>
        /\ raised \in ConfigurationErrors => (pc = "raised" /\ written = <<>>)
        /\ BadConfiguration =>
               /\ pc = "raised"
               /\ written = <<>>
               /\ raised.exc = "CommandError" \/ unsorted.kind = "raise"
        /\ ~options.indir => raised = CommandError("Results directory does not exist")
        /\ (command = "latency_trace" /\ options.indir /\ ~latency_file.isfile)
               => raised = CommandError("The latency trace file does not exist")
        /\ (options.outdir = "missing" /\ unsorted.kind = "return")
               => raised = CommandError("Output directory does not exist")

\* a run that had built a collection of two entries found the given output
\* directory missing and ended in the error
C6_Witness ==
    /\ pc = "raised"
    /\ options.outdir = "missing"
    /\ raised = CommandError("Output directory does not exist")
    /\ unsorted.kind = "return"
    /\ Len(unsorted.ret) = 2
    /\ written = <<>>

(***************************************************************************)
(* The walk of the trace tree (in Spec).                                  *)
(***************************************************************************)
RECURSIVE TestCaseNodesOf(_, _, _)
\* the TRACE_TESTCASE nodes of the trace from its i-th node on, in the
\* order the walk meets them, each with the state id of the fork child it
\* lies in (sid for the nodes of the trace itself)
TestCaseNodesOf(trace, sid, i) ==
    IF i > Len(trace) THEN <<>>
    ELSE LET node == trace[i]
             here ==
                 IF node.type = "TRACE_TESTCASE"
                 THEN <<[state_id |-> sid, items |-> node.items]>>
                 ELSE IF node.type = "TRACE_FORK"
                 THEN LET sub[c \in 0..Len(node.children)] ==
                              IF c = 0 THEN <<>>
                              ELSE sub[c - 1] \o TestCaseNodesOf(node.children[c].trace,
                                                                node.children[c].state_id, 1)
                      IN sub[Len(node.children)]
                 ELSE <<>>
         IN here \o TestCaseNodesOf(trace, sid, i + 1)

\* the walk returned one test case per TRACE_TESTCASE node, each with the
\* state id of its nearest enclosing fork child (0 at the root) and one
\* entry per pair of the node, in the node's order
WalkIsFaithful ==
    LET nodes == TestCaseNodesOf(execution_tree, 0, 1) IN
    /\ unsorted.kind = "return"
    /\ Len(unsorted.ret) = Len(nodes)
    /\ \A i \in 1..Len(nodes) :
           /\ unsorted.ret[i].state_id = nodes[i].state_id
           /\ Len(unsorted.ret[i].key_values) = Len(nodes[i].items)
           /\ \A j \in 1..Len(nodes[i].items) :
                  /\ unsorted.ret[i].key_values[j].key = nodes[i].items[j].key
                  /\ unsorted.ret[i].key_values[j].num_bytes = Len(nodes[i].items[j].value)

\* C1: for every trace tree walked from state id 0, each TRACE_TESTCASE
\* node yields exactly one test case, with the child state id of the
\* nearest enclosing fork (0 when there is none), the state id being
\* replaced at each fork and never carried over to a sibling, and with one
\* key/value entry per pair of the node in the order given.
C1_OneTestCasePerNode ==
    (TraceParsed /\ execution_tree # <<>>) => WalkIsFaithful

\* the walk is faithful on every tree it does not fail on
WalkIsFaithfulUnlessRaised ==
    (TraceParsed /\ execution_tree # <<>> /\ unsorted.kind = "return") => WalkIsFaithful

(***************************************************************************)
(* Properties of concurrent invocations (in SpecConc).                    *)
(***************************************************************************)
\* the names invocation i has written so far
NamesWrittenBy(i) == {written[a].name : a \in {b \in 1..Len(written) : written[b].by = i}}

\* C10 as stated: invocations run at once against one output directory
\* write under names no two of them share.
C10_NoNameSharedByInvocations ==
    \A a, b \in 1..Len(written) :
        written[a].by # written[b].by => written[a].name # written[b].name

\* C10 as amended: the index scheme keeps apart only the files of one
\* invocation, and the two commands use names of their own: two writes to
\* one name always come from two invocations of the same command.  Between
\* invocations of the same command nothing is kept apart: once each has
\* written a file, both have written the same name (testcase-000000.json,
\* or LatencyTracer.csv).
C10_NamesDistinctWithinInvocationOnly ==
    /\ \A a, b \in 1..Len(written) :
           (a # b /\ written[a].name = written[b].name) =>
               /\ written[a].by # written[b].by
               /\ inv[written[a].by].command = inv[written[b].by].command
    /\ \A i, j \in Invocations :
           (/\ i # j
            /\ inv[i].command = inv[j].command
            /\ NamesWrittenBy(i) # {}
            /\ NamesWrittenBy(j) # {})
               => NamesWrittenBy(i) \cap NamesWrittenBy(j) # {}

\* two invocations of the test-case command, their writes interleaved,
\* have both written testcase-000000.json, and one of them a second file
C10_Witness ==
    /\ Len(written) = 3
    /\ written[1].by # written[2].by
    /\ written[1].name = written[2].name
    /\ written[3].by = written[1].by
    /\ written[3].name # written[1].name
    /\ inv[1].command = "extract_testcase"
    /\ inv[2].command = "extract_testcase"

=============================================================================
